---- MODULE Spec2Model ----
(***************************************************************************)
(* Rendering orchestration of gaussian_renderer/__init__.py: the two       *)
(* visibility probes and the four two-pass render entry points, each       *)
(* modelled as one atomic call that records every rasterizer invocation    *)
(* it makes, in order, with the arguments the code passes.                 *)
(*                                                                         *)
(* The rasterizer (gsplat) and autograd are external: what they return     *)
(* (screen radii, gradients, a raised error) is drawn nondeterministically.*)
(***************************************************************************)
EXTENDS Integers, Sequences, FiniteSets

VARIABLES
    scales,       \* pc.get_scaling: one row of extents per primitive
    grad,         \* the .grad buffer of every leaf parameter of the store
    grad0,        \* grad as it was when the last call started
    entry,        \* the entry point called, "idle" before the call
    args,         \* the arguments of the call
    invocations,  \* the rasterizer invocations the call made, in order
    result,       \* what the call returned, None when it raised
    error         \* the exception the call raised, None when it returned

vars == <<scales, grad, grad0, entry, args, invocations, result, error>>

(***************************************************************************)
(* Bounds of the model.                                                    *)
(***************************************************************************)
NPrims == 2          \* primitives in the store
MaxRadius == 1       \* largest screen radius the rasterizer reports
MaxGrad == 1         \* largest gradient magnitude of one backward pass
MaxEdge == 2         \* largest image width / height of a call
MaxCap == 1          \* largest longest_edge of a call
FeatDim == 2         \* channels of a local feature vector
MaxPolicyEdge == 5   \* largest edge the resolution policy is tabulated on

None == "None"          \* None where a string or a record is expected
NoTensor == <<>>        \* None where a tensor is expected
Prims == 1..NPrims
Buffers == {"xyz", "opacity", "scaling", "rotation", "features"}

Max(x, y) == IF x > y THEN x ELSE y

RECURSIVE Pow2(_)
Pow2(k) == IF k = 0 THEN 1 ELSE 2 * Pow2(k - 1)

(***************************************************************************)
(* Python float arithmetic of `int(d * (longest_edge / max_edge))`.        *)
(* Both operands are ints below 2^53, the quotient and the product are     *)
(* each rounded to the nearest binary64 and int() truncates.  With         *)
(* 0 <= d <= m and 1 <= L < m the result is floor(d*L/m), except that an   *)
(* exactly integral d*L/m = q comes out as q - 1 when the rounded quotient *)
(* lies below L/m by more than half the gap under q allows.                *)
(***************************************************************************)
\* 2^k mod n
RECURSIVE PowMod2(_, _)
PowMod2(k, n) == IF k = 0 THEN 1 % n ELSE (2 * PowMod2(k - 1, n)) % n

\* the least s >= from with L * 2^s >= m: L/m lies in [2^-s, 2^(1-s))
RECURSIVE BinExp(_, _, _)
BinExp(L, m, from) == IF L * Pow2(from) >= m THEN from ELSE BinExp(L, m, from + 1)

\* the largest a with 2^a <= q
RECURSIVE Log2Floor(_)
Log2Floor(q) == IF q < 2 THEN 0 ELSE 1 + Log2Floor(q \div 2)

\* whether fl(d * fl(L / m)) < q for the exact integer q = d*L/m
ProductFallsShort(d, m, L) ==
    LET q == (d * L) \div m
        s == BinExp(L, m, 1)
        \* L * 2^(52+s) = M * m + r, M the 53-bit significand before rounding
        r2 == (L * PowMod2(52 + s, 2 * m)) % (2 * m)
        r == r2 % m
        odd == r2 >= m
        \* round-to-nearest-even took the quotient down
        down == r > 0 /\ (2 * r < m \/ (2 * r = m /\ ~odd))
        a == Log2Floor(q)
        k == a + s - 1
    IN  /\ down
        /\ IF q = Pow2(a) THEN 2 * d * r > m * Pow2(k) ELSE d * r > m * Pow2(k)

\* int(d * factor) for d >= 0, factor = L / m
ScaleEdgeNonNeg(d, m, L) ==
    LET q == (d * L) \div m
    IN  IF d = 0 \/ (d * L) % m # 0 THEN q
        ELSE IF ProductFallsShort(d, m, L) THEN q - 1 ELSE q

\* int(d * factor): the product is odd in d and int() truncates toward zero
ScaleEdge(d, m, L) ==
    IF d < 0 THEN 0 - ScaleEdgeNonNeg(0 - d, m, L) ELSE ScaleEdgeNonNeg(d, m, L)

(***************************************************************************)
(* Resolution policy, inlined in render_gsplat and render_gsplat_2dgs.     *)
(***************************************************************************)
\* a policy that rounds to the nearest integer instead of truncating
CappedSizeRounded(width, height, longest_edge) ==
    LET max_edge == Max(width, height)
    IN  IF max_edge > longest_edge
        THEN <<(2 * width * longest_edge + max_edge) \div (2 * max_edge),
               (2 * height * longest_edge + max_edge) \div (2 * max_edge)>>
        ELSE <<width, height>>

\* a policy that never applies the cap
CappedSizeNever(width, height, longest_edge) == <<width, height>>

CappedSize(width, height, longest_edge) ==
    LET max_edge == Max(width, height)
    IN  IF max_edge > longest_edge
        THEN <<ScaleEdge(width, max_edge, longest_edge),
               ScaleEdge(height, max_edge, longest_edge)>>
        ELSE <<width, height>>

(***************************************************************************)
(* Intrinsics.  A field of view is one of four angles: a negative one, 0,  *)
(* one inside (0, pi), and pi.  math.tan(fov * 0.5) is 0.0 only for the    *)
(* angle 0 (math.tan(math.pi / 2) is a large finite float), and dividing   *)
(* a Python number by 0.0 raises ZeroDivisionError.  A focal length is     *)
(* kept as the pair <<edge, fov>> standing for edge / (2 * tan(fov / 2));  *)
(* the principal point is kept doubled, so it stays an integer.            *)
(***************************************************************************)
FovVals == {"neg", "zero", "mid", "pi"}

\* a tangent that also vanishes at pi
TanIsZeroOrPole(fov) == fov \in {"zero", "pi"}

\* math.tan(fov * 0.5) == 0.0
TanIsZero(fov) == fov = "zero"

\* width / (2 * tanfovx), height / (2 * tanfovy) raise
IntrinsicsRaises(fovx, fovy) == TanIsZero(fovx) \/ TanIsZero(fovy)

\* the matrix K, when the two divisions did not raise
Intrinsics(width, height, fovx, fovy) ==
    [fx |-> <<width, fovx>>, fy |-> <<height, fovy>>,
     cx2 |-> width, cy2 |-> height]

(***************************************************************************)
(* Helpers on the primitive store and on the keyword options.              *)
(***************************************************************************)
Absent == "absent"

\* scales.shape[1]
Cols(sc) == Len(sc[CHOOSE p \in DOMAIN sc : TRUE])

\* a padding that forgets the unit column
PadNothing(sc) == sc

\* torch.cat([scales, torch.ones(N, 1)], dim=-1)
Pad(sc) == [p \in DOMAIN sc |-> Append(sc[p], 1)]

\* rows of a per-primitive tensor selected by a boolean mask
Select(t, mask) == [p \in {q \in DOMAIN t : mask[q]} |-> t[p]]

\* a mask that also keeps the primitives of radius 0
VisibleMaskAll(radii) == [p \in DOMAIN radii |-> radii[p] >= 0]

\* radii > 0
VisibleMask(radii) == [p \in DOMAIN radii |-> radii[p] > 0]

\* a dict without one key: del d[key]
Del(d, key) == [k \in DOMAIN d \ {key} |-> d[k]]

\* if 'rasterize_mode' in rasterize_args: del rasterize_args['rasterize_mode']
StripRasterizeMode(rasterize_args) ==
    IF "rasterize_mode" \in DOMAIN rasterize_args
    THEN Del(rasterize_args, "rasterize_mode")
    ELSE rasterize_args

\* torch.zeros(n)
Zeros(n) == [i \in 1..n |-> 0]

\* if bg_color.shape[0] == 3: bg_color = torch.cat([bg_color, bg_color[:1]])
WidenBackground(bg_color) ==
    IF Len(bg_color) = 3 THEN bg_color \o SubSeq(bg_color, 1, 1) ELSE bg_color

\* the shape of pc.get_loc_feature[mask]: one feature vector per selected row
LocFeatureShape(rows) == <<rows, FeatDim>>

\* tensor.squeeze(): every dimension of size 1 is removed
Squeeze(shape) == SelectSeq(shape, LAMBDA d : d # 1)

Outcome(invs, res, err) == [invocations |-> invs, result |-> res, error |-> err]

(***************************************************************************)
(* The two passes every render entry point runs once its arguments are     *)
(* prepared.  A rasterizer invocation is recorded with the arguments the   *)
(* code passes; an image is kept as its shape <<channels, height, width>>. *)
(* rast.radii is info["radii"] of the appearance pass; rast.fails is the   *)
(* invocation (1 or 2) in which the rasterizer raises, 0 for none.         *)
(***************************************************************************)
\* a renderer that runs the feature pass whatever rgb_only says
WantsFeaturePassAlways(rgb_only) == TRUE

\* if rgb_only is False
WantsFeaturePass(rgb_only) == rgb_only = FALSE

TwoPass(fn, sc, width, height, K, bg_color, colors, sh_degree, render_mode, feat_tile_size, rasterize_args, a, rast) ==
    LET pass1 == [fn |-> fn, pass |-> "appearance",
                  means |-> Prims, scales |-> sc,
                  colors |-> colors, sh_degree |-> sh_degree,
                  K |-> K, width |-> width, height |-> height,
                  backgrounds |-> bg_color, render_mode |-> render_mode,
                  tile_size |-> Absent, options |-> rasterize_args]
        radii == rast.radii
        visible_mask == VisibleMask(radii)
        rows == {p \in Prims : visible_mask[p]}
        loc_feature == [kind |-> "loc_feature",
                        shape |-> Squeeze(LocFeatureShape(Cardinality(rows))),
                        normalized |-> a.norm_feat_bf_render]
        pass2 == [fn |-> fn, pass |-> "feature",
                  means |-> rows, scales |-> Select(sc, visible_mask),
                  colors |-> loc_feature, sh_degree |-> Absent,
                  K |-> K, width |-> width, height |-> height,
                  backgrounds |-> Absent, render_mode |-> Absent,
                  tile_size |-> feat_tile_size, options |-> rasterize_args]
        ret(feat_map) == [render |-> <<3, height, width>>,
                          feature_map |-> feat_map,
                          visibility_filter |-> VisibleMask(radii),
                          radii |-> radii]
    IN  IF rast.fails = 1
        THEN Outcome(<<pass1>>, None, "RasterizerFailure")
        ELSE IF WantsFeaturePass(a.rgb_only)
        THEN IF rast.fails = 2
             THEN Outcome(<<pass1, pass2>>, None, "RasterizerFailure")
             ELSE Outcome(<<pass1, pass2>>, ret(<<FeatDim, height, width>>), None)
        ELSE Outcome(<<pass1>>, ret(NoTensor), None)

\* colors and sh_degree of the appearance pass of a camera-driven render
AppearanceColors(override_color) ==
    IF override_color # NoTensor THEN "override_color" ELSE "pc.get_features"

AppearanceShDegree(override_color) ==
    IF override_color # NoTensor THEN None ELSE "pc.active_sh_degree"

(***************************************************************************)
(* The four render entry points.                                           *)
(***************************************************************************)
render_gsplat_2dgs(sc, a, rast) ==
    LET scales3 == Pad(sc)
        rasterize_args == StripRasterizeMode(a.rasterize_args)
        wh == CappedSize(a.width, a.height, a.longest_edge)
        K == Intrinsics(wh[1], wh[2], a.fovx, a.fovy)
        bg0 == IF a.bg_color = NoTensor THEN Zeros(4) ELSE a.bg_color
        bg_color == WidenBackground(bg0)
    IN  IF IntrinsicsRaises(a.fovx, a.fovy)
        THEN Outcome(<<>>, None, "ZeroDivisionError")
        ELSE TwoPass("rasterization_2dgs", scales3, wh[1], wh[2], K, bg_color,
                     AppearanceColors(a.override_color),
                     AppearanceShDegree(a.override_color),
                     "RGB+ED", 8, rasterize_args, a, rast)

render_gsplat(sc, a, rast) ==
    IF Cols(sc) = 2 THEN render_gsplat_2dgs(sc, a, rast)
    ELSE
    LET bg_color == IF a.bg_color = NoTensor THEN Zeros(3) ELSE a.bg_color
        wh == CappedSize(a.width, a.height, a.longest_edge)
        K == Intrinsics(wh[1], wh[2], a.fovx, a.fovy)
    IN  IF IntrinsicsRaises(a.fovx, a.fovy)
        THEN Outcome(<<>>, None, "ZeroDivisionError")
        ELSE TwoPass("rasterization", sc, wh[1], wh[2], K, bg_color,
                     AppearanceColors(a.override_color),
                     AppearanceShDegree(a.override_color),
                     Absent, Absent, a.rasterize_args, a, rast)

render_from_pose_gsplat_2dgs(sc, a, rast) ==
    LET rasterize_args == StripRasterizeMode(a.rasterize_args)
        scales3 == Pad(sc)
        K == Intrinsics(a.width, a.height, a.fovx, a.fovy)
        bg_color == IF a.bg_color = NoTensor THEN Zeros(4) ELSE a.bg_color
    IN  IF IntrinsicsRaises(a.fovx, a.fovy)
        THEN Outcome(<<>>, None, "ZeroDivisionError")
        ELSE TwoPass("rasterization_2dgs", scales3, a.width, a.height, K,
                     bg_color, "pc.get_features", "pc.active_sh_degree",
                     a.render_mode, 8, rasterize_args, a, rast)

render_from_pose_gsplat(sc, a, rast) ==
    IF Cols(sc) = 2 THEN render_from_pose_gsplat_2dgs(sc, a, rast)
    ELSE
    LET K == Intrinsics(a.width, a.height, a.fovx, a.fovy)
        bg_color == IF a.bg_color = NoTensor THEN Zeros(3) ELSE a.bg_color
    IN  IF IntrinsicsRaises(a.fovx, a.fovy)
        THEN Outcome(<<>>, None, "ZeroDivisionError")
        ELSE TwoPass("rasterization", sc, a.width, a.height, K, bg_color,
                     "pc.get_features", "pc.active_sh_degree",
                     a.render_mode, Absent, a.rasterize_args, a, rast)

(***************************************************************************)
(* The visibility probes.  colors.sum().backward() adds the gradient g of  *)
(* the rendered sum to the .grad buffer of every leaf of the store the     *)
(* render read (positions, opacities, scales, rotations, appearance        *)
(* coefficients); a gradient is kept as its magnitude per primitive.       *)
(***************************************************************************)
\* autograd accumulates: grad += g
Backward(gr, g) == [b \in Buffers |-> [p \in Prims |-> gr[b][p] + g[b][p]]]

\* means3D.grad.norm(dim=-1) > 0
GradNormPositive(t) == [p \in DOMAIN t |-> t[p] # 0]

\* a reset that leaves the buffer as it is
zero_Skipped(t) == t

\* tensor.zero_()
zero_(t) == [p \in DOMAIN t |-> 0]

ProbeOutcome(invs, res, err, gr) ==
    [invocations |-> invs, result |-> res, error |-> err, grad |-> gr]

\* the render of a probe and what follows it (lines 49-68 and 104-125)
ProbeRender(fn, sc, render_mode, gr, a, rast) ==
    LET K == Intrinsics(a.width, a.height, a.fovx, a.fovy)
        inv == [fn |-> fn, pass |-> "probe",
                means |-> Prims, scales |-> sc,
                colors |-> "pc.get_features",
                sh_degree |-> "pc.active_sh_degree",
                K |-> K, width |-> a.width, height |-> a.height,
                backgrounds |-> Absent, render_mode |-> render_mode,
                tile_size |-> Absent, options |-> a.rasterize_args]
        accumulated == Backward(gr, rast.g)
        render_visible_mask == GradNormPositive(accumulated["xyz"])
        after == [accumulated EXCEPT !["xyz"] = zero_(accumulated["xyz"])]
    IN  IF IntrinsicsRaises(a.fovx, a.fovy)
        THEN ProbeOutcome(<<>>, None, "ZeroDivisionError", gr)
        ELSE IF rast.fails = 1
        THEN ProbeOutcome(<<inv>>, None, "RasterizerFailure", gr)
        ELSE ProbeOutcome(<<inv>>, render_visible_mask, None, after)

get_render_visible_mask_2dgs(sc, gr, a, rast) ==
    ProbeRender("rasterization_2dgs", Pad(sc), "RGB", gr, a, rast)

get_render_visible_mask(sc, gr, a, rast) ==
    IF Cols(sc) = 2 THEN get_render_visible_mask_2dgs(sc, gr, a, rast)
    ELSE ProbeRender("rasterization", sc, Absent, gr, a, rast)

(***************************************************************************)
(* Inputs.                                                                 *)
(***************************************************************************)
Rows2 == {<<2, 3>>}
Rows3 == {<<2, 3, 4>>}
Stores == [Prims -> Rows2] \cup [Prims -> Rows3]

Sizes == 1..MaxEdge
Caps == 1..MaxCap
Backgrounds == {NoTensor, <<5, 6, 7>>, <<5, 6, 7, 8>>}
Overrides == {NoTensor, <<NPrims, 3>>}
RenderModes == {"RGB", "RGB+ED"}

OptionValue(k) == IF k = "rasterize_mode" THEN "antialiased" ELSE "True"
RasterizeArgs == {[k \in S |-> OptionValue(k)] : S \in SUBSET {"rasterize_mode", "absgrad"}}

CameraArgs(sizes, fovs, backgrounds, options) ==
    [width : sizes, height : sizes, fovx : fovs, fovy : fovs,
     longest_edge : Caps, bg_color : backgrounds, override_color : Overrides,
     rgb_only : BOOLEAN, norm_feat_bf_render : BOOLEAN, rasterize_args : options]

PoseArgs(sizes, fovs, backgrounds, options) ==
    [width : sizes, height : sizes, fovx : fovs, fovy : fovs,
     bg_color : backgrounds, render_mode : RenderModes,
     rgb_only : BOOLEAN, norm_feat_bf_render : BOOLEAN, rasterize_args : options]

ProbeArgs(sizes, fovs, options) ==
    [width : sizes, height : sizes, fovx : fovs, fovy : fovs,
     rasterize_args : options]

\* what the rasterizer hands back to a render
RenderRasts == [radii : [Prims -> 0..MaxRadius], fails : 0..2]

\* what the rasterizer and its backward pass hand back to a probe: the
\* attribute buffers all receive no gradient, the position's, or the largest
GradVals == 0..MaxGrad
ZeroGrad == [b \in Buffers |-> [p \in Prims |-> 0]]
GradOf(gx, ga) == [b \in Buffers |-> IF b = "xyz" THEN gx ELSE ga]
Gradients ==
    {GradOf(gx, ga) : gx \in [Prims -> GradVals],
                      ga \in {[p \in Prims |-> 0], [p \in Prims |-> MaxGrad]}}
    \cup {GradOf(gx, gx) : gx \in [Prims -> GradVals]}
ProbeRasts == [g : Gradients, fails : 0..1]

(***************************************************************************)
(* Actions: one call of one entry point, its arguments drawn from argset.  *)
(***************************************************************************)
Return(name, a, out, gr) ==
    /\ entry' = name
    /\ args' = a
    /\ invocations' = out.invocations
    /\ result' = out.result
    /\ error' = out.error
    /\ grad0' = grad
    /\ grad' = gr
    /\ UNCHANGED scales

Call_render_gsplat(argset) ==
    /\ entry = "idle"
    /\ \E a \in argset, rast \in RenderRasts :
           Return("render_gsplat", a, render_gsplat(scales, a, rast), grad)

Call_render_gsplat_2dgs(argset) ==
    /\ entry = "idle"
    /\ \E a \in argset, rast \in RenderRasts :
           Return("render_gsplat_2dgs", a, render_gsplat_2dgs(scales, a, rast), grad)

Call_render_from_pose_gsplat(argset) ==
    /\ entry = "idle"
    /\ \E a \in argset, rast \in RenderRasts :
           Return("render_from_pose_gsplat", a,
                  render_from_pose_gsplat(scales, a, rast), grad)

Call_render_from_pose_gsplat_2dgs(argset) ==
    /\ entry = "idle"
    /\ \E a \in argset, rast \in RenderRasts :
           Return("render_from_pose_gsplat_2dgs", a,
                  render_from_pose_gsplat_2dgs(scales, a, rast), grad)

Call_get_render_visible_mask(argset) ==
    /\ entry = "idle"
    /\ \E a \in argset, rast \in ProbeRasts :
           LET out == get_render_visible_mask(scales, grad, a, rast)
           IN  Return("get_render_visible_mask", a, out, out.grad)

Call_get_render_visible_mask_2dgs(argset) ==
    /\ entry = "idle"
    /\ \E a \in argset, rast \in ProbeRasts :
           LET out == get_render_visible_mask_2dgs(scales, grad, a, rast)
           IN  Return("get_render_visible_mask_2dgs", a, out, out.grad)

(***************************************************************************)
(* Spec: every entry point, called with a sound geometry on a store whose  *)
(* gradient buffers are zero.                                              *)
(***************************************************************************)
Idle ==
    /\ entry = "idle"
    /\ args = None
    /\ invocations = <<>>
    /\ result = None
    /\ error = None

Init ==
    /\ scales \in Stores
    /\ grad = ZeroGrad
    /\ grad0 = ZeroGrad
    /\ Idle

Next ==
    \/ Call_render_gsplat(CameraArgs(Sizes, {"mid"}, Backgrounds, RasterizeArgs))
    \/ Call_render_gsplat_2dgs(CameraArgs(Sizes, {"mid"}, Backgrounds, RasterizeArgs))
    \/ Call_render_from_pose_gsplat(PoseArgs(Sizes, {"mid"}, Backgrounds, RasterizeArgs))
    \/ Call_render_from_pose_gsplat_2dgs(PoseArgs(Sizes, {"mid"}, Backgrounds, RasterizeArgs))
    \/ Call_get_render_visible_mask(ProbeArgs(Sizes, {"mid"}, RasterizeArgs))
    \/ Call_get_render_visible_mask_2dgs(ProbeArgs(Sizes, {"mid"}, RasterizeArgs))

Spec == Init /\ [][Next]_vars

(***************************************************************************)
(* SpecProbe: a probe called on a store whose gradient buffers hold what   *)
(* earlier backward passes left in them.                                   *)
(***************************************************************************)
PriorGrads ==
    {GradOf(gx, ga) : gx \in [Prims -> GradVals],
                      ga \in {[p \in Prims |-> 0], [p \in Prims |-> MaxGrad]}}

InitProbe ==
    /\ scales \in Stores
    /\ grad \in PriorGrads
    /\ grad0 = grad
    /\ Idle

NextProbe ==
    \/ Call_get_render_visible_mask(ProbeArgs(Sizes, {"mid"}, RasterizeArgs))
    \/ Call_get_render_visible_mask_2dgs(ProbeArgs(Sizes, {"mid"}, RasterizeArgs))

SpecProbe == InitProbe /\ [][NextProbe]_vars

(***************************************************************************)
(* SpecGeometry: every entry point called with any field of view and with  *)
(* widths and heights that may be zero or negative, default options.       *)
(***************************************************************************)
AnySizes == (0 - 1)..MaxEdge
NoOptions == {[k \in {} |-> OptionValue(k)]}

GeometryCameraArgs ==
    [width : AnySizes, height : AnySizes, fovx : FovVals, fovy : FovVals,
     longest_edge : Caps, bg_color : {NoTensor}, override_color : {NoTensor},
     rgb_only : BOOLEAN, norm_feat_bf_render : {TRUE}, rasterize_args : NoOptions]

GeometryPoseArgs ==
    [width : AnySizes, height : AnySizes, fovx : FovVals, fovy : FovVals,
     bg_color : {NoTensor}, render_mode : {"RGB+ED"},
     rgb_only : BOOLEAN, norm_feat_bf_render : {TRUE}, rasterize_args : NoOptions]

NextGeometry ==
    \/ Call_render_gsplat(GeometryCameraArgs)
    \/ Call_render_gsplat_2dgs(GeometryCameraArgs)
    \/ Call_render_from_pose_gsplat(GeometryPoseArgs)
    \/ Call_render_from_pose_gsplat_2dgs(GeometryPoseArgs)
    \/ Call_get_render_visible_mask(ProbeArgs(AnySizes, FovVals, NoOptions))
    \/ Call_get_render_visible_mask_2dgs(ProbeArgs(AnySizes, FovVals, NoOptions))

SpecGeometry == Init /\ [][NextGeometry]_vars

(***************************************************************************)
(* SpecPolicy: the resolution policy on its own, applied to one input.     *)
(***************************************************************************)
PolicyEdges == 1..MaxPolicyEdge \cup {22, 240, 320, 667, 1000, 1080, 1920}
PolicyCaps == 1..MaxPolicyEdge \cup {15, 640}

InitPolicy ==
    /\ scales \in [Prims -> Rows3]
    /\ grad = ZeroGrad
    /\ grad0 = ZeroGrad
    /\ entry = "idle"
    /\ args \in [width : PolicyEdges, height : PolicyEdges, longest_edge : PolicyCaps]
    /\ invocations = <<>>
    /\ result = None
    /\ error = None

ApplyCappedSize ==
    /\ entry = "idle"
    /\ entry' = "resolution_policy"
    /\ result' = CappedSize(args.width, args.height, args.longest_edge)
    /\ UNCHANGED <<scales, grad, grad0, args, invocations, error>>

NextPolicy == ApplyCappedSize

SpecPolicy == InitPolicy /\ [][NextPolicy]_vars

(***************************************************************************)
(* Properties.                                                             *)
(***************************************************************************)
Called == entry # "idle"
Returned == Called /\ error = None
CameraEntries == {"render_gsplat", "render_gsplat_2dgs"}
PoseEntries == {"render_from_pose_gsplat", "render_from_pose_gsplat_2dgs"}
RenderEntries == CameraEntries \cup PoseEntries
ProbeEntries == {"get_render_visible_mask", "get_render_visible_mask_2dgs"}
Invs == 1..Len(invocations)
CapApplies ==
    /\ entry \in CameraEntries
    /\ Max(args.width, args.height) > args.longest_edge

\* C1 as stated: when the longest edge of the camera exceeds longest_edge,
\* the appearance pass of a camera-driven render still receives the camera's
\* native width and height.
C1_AppearancePassNative ==
    (CapApplies /\ Len(invocations) >= 1) =>
        /\ invocations[1].pass = "appearance"
        /\ invocations[1].width = args.width
        /\ invocations[1].height = args.height

\* C1 amended: when the longest edge of the camera exceeds longest_edge, every
\* rasterizer invocation of a camera-driven render, the appearance pass
\* included, receives the same downscaled width and height, neither above
\* longest_edge, and intrinsics built from that size; the native size reaches
\* no invocation.
C1_BothPassesCapped ==
    CapApplies =>
        \A i \in Invs :
            /\ invocations[i].width <= args.longest_edge
            /\ invocations[i].height <= args.longest_edge
            /\ <<invocations[i].width, invocations[i].height>> # <<args.width, args.height>>
            /\ invocations[i].width = invocations[1].width
            /\ invocations[i].height = invocations[1].height
            /\ invocations[i].K.cx2 = invocations[i].width
            /\ invocations[i].K.cy2 = invocations[i].height

C1_Witness ==
    /\ CapApplies
    /\ Returned
    /\ Len(invocations) = 2
    /\ invocations[1].pass = "appearance"
    /\ invocations[1].width < args.width

\* C2: after a visibility probe returns a mask, the position-gradient buffer
\* is zero for every primitive, whatever it held when the call started.
C2_PositionGradZeroed ==
    (entry \in ProbeEntries /\ Returned) => \A p \in Prims : grad["xyz"][p] = 0

C2_Witness ==
    /\ entry \in ProbeEntries
    /\ Returned
    /\ \E p \in Prims : grad0["xyz"][p] # 0
    /\ \E p \in Prims : result[p]
    /\ \A p \in Prims : grad["xyz"][p] = 0

\* C3 as stated: a probe that starts from zeroed buffers returns with every
\* gradient buffer of the store (position, opacity, scale, rotation,
\* appearance coefficients) holding the value it held before the probe.
C3_NoResidualGradient ==
    (entry \in ProbeEntries /\ Returned /\ grad0 = ZeroGrad) => grad = grad0

\* C4: on a store whose scale has 2 columns every entry point renders with the
\* planar rasterizer, and the scale of every invocation has exactly 3
\* columns: the two of the store and a third that is 1.
C4_PlanarScalePadded ==
    (Called /\ Cols(scales) = 2) =>
        \A i \in Invs :
            /\ invocations[i].fn = "rasterization_2dgs"
            /\ \A p \in DOMAIN invocations[i].scales :
                   /\ Len(invocations[i].scales[p]) = 3
                   /\ invocations[i].scales[p][3] = 1
                   /\ SubSeq(invocations[i].scales[p], 1, 2) = scales[p]

C4_Witness ==
    /\ entry = "render_gsplat"
    /\ Cols(scales) = 2
    /\ Returned
    /\ Len(invocations) = 2
    /\ invocations[2].pass = "feature"
    /\ invocations[2].means # {}
    /\ \A p \in invocations[2].means : invocations[2].scales[p][3] = 1

\* C5 as stated: no invocation of the planar rasterizer (appearance pass,
\* feature pass or the planar probe's render) receives a rasterize_mode
\* argument.
C5_RasterizeModeStripped ==
    \A i \in Invs :
        invocations[i].fn = "rasterization_2dgs" =>
            "rasterize_mode" \notin DOMAIN invocations[i].options

\* C6 as stated: for a caller that supplies no background or a 3-channel one,
\* the background of the appearance pass is the zero vector when none was
\* supplied and always has the variant's channel count, 3 for the volumetric
\* rasterizer and 4 for the planar one.
C6_BackgroundWidened ==
    (entry \in RenderEntries /\ Len(invocations) >= 1 /\ Len(args.bg_color) \in {0, 3}) =>
        LET bg == invocations[1].backgrounds
            channels == IF invocations[1].fn = "rasterization_2dgs" THEN 4 ELSE 3
        IN  /\ Len(bg) = channels
            /\ args.bg_color = NoTensor => bg = [i \in 1..channels |-> 0]

PolicyApplied == entry = "resolution_policy"
PolicyMax == Max(args.width, args.height)
PolicyScales == PolicyApplied /\ PolicyMax > args.longest_edge

\* r is an integer nearest to d * longest_edge / max
NearestTo(r, d) ==
    LET e == 2 * (r * PolicyMax - d * args.longest_edge)
    IN  e <= PolicyMax /\ 0 - e <= PolicyMax

\* r is d * longest_edge / max truncated, or one less where the quotient is
\* an exact integer
TruncatedTo(r, d) ==
    LET q == (d * args.longest_edge) \div PolicyMax
    IN  IF (d * args.longest_edge) % PolicyMax = 0 THEN r \in {q - 1, q} ELSE r = q

\* C7 as stated: above the cap both dimensions are scaled by
\* longest_edge / max(width, height) and rounded to the nearest integer;
\* otherwise they are returned unchanged.
C7_RoundedToNearest ==
    PolicyApplied =>
        IF PolicyMax > args.longest_edge
        THEN NearestTo(result[1], args.width) /\ NearestTo(result[2], args.height)
        ELSE result = <<args.width, args.height>>

\* C7 amended: above the cap each dimension d becomes
\* int(d * (longest_edge / max)) in double precision: the quotient
\* d * longest_edge / max truncated toward zero, never rounded up, and one
\* less than it only where it is an exact integer (22x22 with cap 15 gives
\* 14x14); 1920x1080 with cap 640 gives 640x360; at or below the cap width
\* and height are returned unchanged (320x240 with cap 640 stays 320x240).
C7_TruncatedInDoubles ==
    PolicyApplied =>
        /\ IF PolicyMax > args.longest_edge
           THEN TruncatedTo(result[1], args.width) /\ TruncatedTo(result[2], args.height)
           ELSE result = <<args.width, args.height>>
        /\ (args = [width |-> 1920, height |-> 1080, longest_edge |-> 640]) =>
               result = <<640, 360>>
        /\ (args = [width |-> 320, height |-> 240, longest_edge |-> 640]) =>
               result = <<320, 240>>
        /\ (args = [width |-> 22, height |-> 22, longest_edge |-> 15]) =>
               result = <<14, 14>>
        /\ (args = [width |-> 1000, height |-> 667, longest_edge |-> 640]) =>
               result = <<640, 426>>

C7_Witness ==
    /\ PolicyScales
    /\ args.width > args.height
    /\ result[1] = args.longest_edge
    /\ ~NearestTo(result[2], args.height)

Degenerate ==
    \/ args.fovx \in {"neg", "zero", "pi"}
    \/ args.fovy \in {"neg", "zero", "pi"}
    \/ args.width <= 0
    \/ args.height <= 0

\* C8 as stated: with a field of view <= 0 or >= pi, or a width or height
\* <= 0, every entry point fails with InvalidGeometry before any rasterizer
\* invocation.
C8_InvalidGeometryRaised ==
    (Called /\ Degenerate) => (error = "InvalidGeometry" /\ invocations = <<>>)

\* C8 amended: no entry point validates its geometry and none raises
\* InvalidGeometry.  A field of view of exactly 0 makes the focal-length
\* division raise ZeroDivisionError before any rasterizer invocation; with
\* any other field of view (negative, or pi) and any width and height (zero
\* and negative included) the entry point builds the intrinsics from the
\* values it was given and invokes the rasterizer with them.
C8_DegenerateGeometryOutcome ==
    (Called /\ Degenerate) =>
        /\ error # "InvalidGeometry"
        /\ IF args.fovx = "zero" \/ args.fovy = "zero"
           THEN error = "ZeroDivisionError" /\ invocations = <<>>
           ELSE /\ Len(invocations) >= 1
                /\ error \in {None, "RasterizerFailure"}
                /\ invocations[1].K.fx = <<invocations[1].width, args.fovx>>
                /\ invocations[1].K.fy = <<invocations[1].height, args.fovy>>
                /\ entry \notin CameraEntries =>
                       /\ invocations[1].width = args.width
                       /\ invocations[1].height = args.height

C8_Witness ==
    /\ entry = "render_from_pose_gsplat"
    /\ args.fovx = "pi"
    /\ args.fovy = "neg"
    /\ args.width = 0
    /\ Returned
    /\ Len(invocations) = 2
    /\ invocations[1].width = 0

\* C9: a render entry point that returns with rgb_only true has made exactly
\* one rasterizer invocation, the appearance pass, and returns no feature
\* map; with rgb_only false it has made exactly two, the appearance pass
\* first and the feature pass second, and returns a feature map.
C9_PassesPerCall ==
    (entry \in RenderEntries /\ Returned) =>
        IF args.rgb_only
        THEN /\ Len(invocations) = 1
             /\ invocations[1].pass = "appearance"
             /\ result.feature_map = NoTensor
        ELSE /\ Len(invocations) = 2
             /\ invocations[1].pass = "appearance"
             /\ invocations[2].pass = "feature"
             /\ invocations[2].means \subseteq {p \in Prims : result.radii[p] # 0}
             /\ result.feature_map # NoTensor

C9_Witness ==
    /\ entry \in RenderEntries
    /\ Returned
    /\ args.rgb_only
    /\ Len(invocations) = 1
    /\ result.feature_map = NoTensor

\* C10: the visibility_filter a render entry point returns is radii > 0 for
\* every primitive, radii being the screen radii returned in the same
\* result, and the primitives submitted to the feature pass are exactly
\* those whose visibility_filter is true.
C10_VisibilityIsPositiveRadius ==
    (entry \in RenderEntries /\ Returned) =>
        /\ \A p \in Prims : result.visibility_filter[p] = (result.radii[p] > 0)
        /\ \A i \in Invs :
               invocations[i].pass = "feature" =>
                   /\ invocations[i].means = {p \in Prims : result.visibility_filter[p]}
                   /\ DOMAIN invocations[i].scales = invocations[i].means

C10_Witness ==
    /\ entry \in RenderEntries
    /\ Returned
    /\ Len(invocations) = 2
    /\ \E p \in Prims : result.radii[p] > 0 /\ result.visibility_filter[p]
    /\ \E p \in Prims : result.radii[p] = 0 /\ ~result.visibility_filter[p]
    /\ invocations[2].means = {p \in Prims : result.radii[p] > 0}

\* C11 as stated: in the feature pass of every render entry point the
\* feature payload handed to the rasterizer has exactly one row per visible
\* primitive, the row count of the filtered positions and scales, whatever
\* the number of visible primitives, 0 and 1 included: its shape is
\* (visible primitives, feature channels).
C11_FeaturePayloadRows ==
    entry \in RenderEntries =>
        \A i \in Invs :
            invocations[i].pass = "feature" =>
                invocations[i].colors.shape =
                    <<Cardinality(invocations[i].means), FeatDim>>

====
